---- MODULE Spec2Model ----
(***************************************************************************)
(* A model of jiwa (src/cmd/jiwa/main.go), a command-line client of an     *)
(* issue tracker.  One process invocation is a state machine: func init    *)
(* loads the configuration, func main dispatches on os.Args[1], and each   *)
(* subcommand reads its input (flags, stdin, a file, an editor buffer),    *)
(* calls the issue-tracker client and prints.                              *)
(*                                                                         *)
(* A Go string is a sequence of symbols.  A symbol is one character, or a  *)
(* literal of the source that no operation of the program ever splits      *)
(* ("/browse/", "create", "project").  "" is << >>.                        *)
(*                                                                         *)
(* Three specifications:                                                   *)
(*   Spec       one invocation of the program, from init to exit;          *)
(*   SpecParse  BuildSummaryAndDescriptionFromScanner applied to every     *)
(*              bounded sequence of lines;                                 *)
(*   SpecURL    ConstructIssueURL followed by StripBaseURL on every        *)
(*              bounded key and base URL.                                  *)
(***************************************************************************)
EXTENDS Naturals, Integers, Sequences, FiniteSets

VARIABLES
    Args,          \* os.Args: Args[1] is the program name, Args[2] is os.Args[1]
    stdinPiped,    \* (stat.Mode() & os.ModeCharDevice) == 0
    cfg,           \* var cfg Config
    clientBaseURL, \* c.BaseURL of the jiwa.Client built in main
    flags,         \* the values of the create and list flag sets
    pc,            \* position of the process
    exitCode,      \* NotExited, 0 or 1
    out,           \* what was printed to standard output, in order
    calls,         \* the issue-tracker client calls made, in order
    project,       \* local of case "create"
    summary,       \* local of case "create" / "edit"
    description,   \* local of case "create" / "edit"
    ticketID,      \* local of case "reassign" / "label"
    user,          \* local of case "reassign"
    jql,           \* local of case "ls"
    scanner,       \* the *bufio.Scanner handed to the parser: tokens it yields, and Err()
    res,           \* the (title, description, err) a parser call returned
    tmpFile,       \* the editor's temporary file: "none", "staged", "removed"
    cleanupRuns,   \* how many times the cleanup function of the editor ran
    caller,        \* who called CreateIssueSummaryDescription: "create" or "edit"
    prefill,       \* argument of CreateIssueSummaryDescription
    issueKey,      \* SpecURL: the key given to ConstructIssueURL
    baseURL,       \* SpecURL: the base URL
    url,           \* SpecURL: ConstructIssueURL(issueKey, baseURL)
    stripped       \* SpecURL: StripBaseURL(url, baseURL)

vars == << Args, stdinPiped, cfg, clientBaseURL, flags, pc, exitCode, out, calls,
           project, summary, description, ticketID, user, jql,
           scanner, res, tmpFile, cleanupRuns, caller, prefill,
           issueKey, baseURL, url, stripped >>

-----------------------------------------------------------------------------
(* Bounds of the model.                                                    *)

\* longest list of arguments after the subcommand name
MaxTail == 3
\* longest text (in symbols) on stdin, in a file or in the editor buffer
MaxTextLen == 3
\* most issues a Search returns
MaxIssues == 1
\* SpecParse: most lines the scanner yields
MaxLines == 4
\* SpecParse: longest line
MaxLineLen == 1
\* SpecURL: longest issue key
MaxKeyLen == 2
\* SpecURL: longest base URL
MaxBaseLen == 2

-----------------------------------------------------------------------------
(* Strings.                                                                *)

NL == "\n"
CR == "\r"

\* a nil error
NoErr == "nil"

\* all sequences over S of length at most n
SeqsUpTo(S, n) == UNION { [1..k -> S] : k \in 0..n }

\* strings.HasPrefix(s, prefix)
HasPrefix(s, prefix) ==
    /\ Len(prefix) <= Len(s)
    /\ SubSeq(s, 1, Len(prefix)) = prefix

\* strings.TrimPrefix(s, prefix): s without the leading prefix; s itself when
\* s does not start with prefix
TrimPrefix(s, prefix) ==
    IF HasPrefix(s, prefix) THEN SubSeq(s, Len(prefix) + 1, Len(s)) ELSE s

\* the literal "/browse/" of the format string "%s/browse/%s"
BrowsePath == << "/browse/" >>

\* func StripBaseURL(url, baseURL string) string
\*     return strings.TrimPrefix(baseURL+"/browse/", url)
StripBaseURL(u, b) == TrimPrefix(b \o BrowsePath, u)

\* func ConstructIssueURL(issueKey, baseURL string) string
\*     return fmt.Sprintf("%s/browse/%s", baseURL, issueKey)
ConstructIssueURL(k, b) == b \o BrowsePath \o k

-----------------------------------------------------------------------------
(* bufio.Scanner with the default split function (bufio.ScanLines).        *)

\* dropCR of bufio: a trailing \r of a line is dropped
DropCR(line) ==
    IF Len(line) > 0 /\ line[Len(line)] = CR
    THEN SubSeq(line, 1, Len(line) - 1) ELSE line

\* index of the first NL of data, 0 when there is none
FirstNL(data) ==
    IF \E i \in 1..Len(data) : data[i] = NL
    THEN CHOOSE i \in 1..Len(data) :
            /\ data[i] = NL
            /\ \A j \in 1..(i - 1) : data[j] # NL
    ELSE 0

\* the tokens bufio.ScanLines yields on data: the lines without their end-of-line
\* marker; a last line without newline is yielded when it is not empty
RECURSIVE ScanLines(_)
ScanLines(data) ==
    IF data = << >> THEN << >>
    ELSE LET i == FirstNL(data) IN
         IF i > 0
         THEN << DropCR(SubSeq(data, 1, i - 1)) >> \o ScanLines(SubSeq(data, i + 1, Len(data)))
         ELSE << DropCR(data) >>

\* a scanner: the tokens its Scan() calls yield before Scan() returns false, and
\* whether Err() is then non-nil (a read error, or bufio.ErrTooLong)
NewScanner(lines, failed) == [lines |-> lines, err |-> failed]

-----------------------------------------------------------------------------
(* The text-buffer parser.                                                 *)

\* the for scanner.Scan() loop of BuildSummaryAndDescriptionFromScanner, with
\* the mistake of writing the title line into the description too (no continue)
RECURSIVE ScanLoopNoContinue(_, _, _)
ScanLoopNoContinue(lines, title, descriptionBuilder) ==
    IF lines = << >>
    THEN [title |-> title, description |-> descriptionBuilder]
    ELSE ScanLoopNoContinue(Tail(lines),
                            IF title = << >> THEN Head(lines) ELSE title,
                            descriptionBuilder \o Head(lines) \o << NL >>)

\* the loop with the mistake of overwriting the title on every iteration
RECURSIVE ScanLoopOverwrite(_, _, _)
ScanLoopOverwrite(lines, title, descriptionBuilder) ==
    IF lines = << >>
    THEN [title |-> title, description |-> descriptionBuilder]
    ELSE IF title = << >>
         THEN ScanLoopOverwrite(Tail(lines), Head(lines), descriptionBuilder)
         ELSE ScanLoopOverwrite(Tail(lines), Head(lines),
                                descriptionBuilder \o title \o << NL >>)

\*  for scanner.Scan() {
\*      if title == "" { title = scanner.Text(); continue }
\*      descriptionBuilder.WriteString(scanner.Text())
\*      descriptionBuilder.WriteString("\n")
\*  }
RECURSIVE ScanLoop(_, _, _)
ScanLoop(lines, title, descriptionBuilder) ==
    IF lines = << >>
    THEN [title |-> title, description |-> descriptionBuilder]
    ELSE IF title = << >>
         THEN ScanLoop(Tail(lines), Head(lines), descriptionBuilder)
         ELSE ScanLoop(Tail(lines), title,
                       descriptionBuilder \o Head(lines) \o << NL >>)

\* func BuildSummaryAndDescriptionFromScanner(scanner) (string, string, error):
\* return title, descriptionBuilder.String(), scanner.Err()
BuildSummaryAndDescriptionFromScanner(sc) ==
    LET r == ScanLoop(sc.lines, << >>, << >>)
    IN  [title |-> r.title, description |-> r.description,
         err |-> IF sc.err THEN "scanner.Err" ELSE NoErr]

\* a (title, description, err) triple; the zero value of res
Result(title, desc, err) == [title |-> title, description |-> desc, err |-> err]
NoResult == Result(<< >>, << >>, NoErr)

-----------------------------------------------------------------------------
(* Literals of the source.                                                 *)

Prog        == << "jiwa" >>
CmdCreate   == << "create" >>
CmdEdit     == << "edit" >>
CmdList     == << "list" >>
CmdLs       == << "ls" >>
CmdMove     == << "move" >>
CmdMv       == << "mv" >>
CmdReassign == << "reassign" >>
CmdLabel    == << "label" >>

\* the case labels of the switch of main
CaseLabels == { CmdCreate, CmdEdit, CmdList, CmdLs, CmdMove, CmdMv, CmdReassign, CmdLabel }

NotExited == -1

\* os.Args[i], with Go's index from 0
Arg(i) == Args[i + 1]
\* os.Args[i:]
ArgsFrom(i) == SubSeq(Args, i + 1, Len(Args))
\* len(os.Args)
NArgs == Len(Args)

\* type Config struct, and its zero value (var cfg Config)
ZeroConfig ==
    [ BaseURL |-> << >>, APIVersion |-> << >>, EndpointPrefix |-> << >>,
      Username |-> << >>, Password |-> << >>, DefaultProject |-> << >> ]

\* the defaults of the flags of the create and list flag sets
DefaultFlags ==
    [ create |-> [ project |-> << >>, in |-> << >> ],
      list   |-> [ user |-> << >>, status |-> << "to do" >>, project |-> << >> ] ]

-----------------------------------------------------------------------------
(* The inputs of an invocation.                                            *)

\* the command-line words after the subcommand name
ArgTokens ==
    { << "-", "project" >>, << "-", "in" >>, << "-", "user" >>, << "-", "status" >>,
      << "-" >>, << "K" >>, << "empty" >> }

\* os.Args: the program name alone, or followed by a subcommand name (one of
\* the case labels, or a word that is none) and its arguments
ArgvSet ==
    { Prog } \cup
    { << Prog, cmd >> \o tail :
        cmd \in CaseLabels \cup { << "help" >> }, tail \in SeqsUpTo(ArgTokens, MaxTail) }

\* texts on stdin, in a file, in the editor buffer
TextSymbols == { "a", NL }
Texts == SeqsUpTo(TextSymbols, MaxTextLen)

IssueKeys == { << "K" >> }
BaseURLs  == { << "h" >> }

\* stdin: a text, or a browse URL as the tool prints it (jiwa create | jiwa reassign u)
StdinTexts == Texts \cup { ConstructIssueURL(k, b) \o << NL >> : k \in IssueKeys, b \in BaseURLs }

\* what the tracker returns for an issue: jira.Issue{Key, Fields{Summary, Description}}
Issues == { [ Key |-> k, Summary |-> << "a" >>, Description |-> << "a" >> ] : k \in IssueKeys }
IssueLists == SeqsUpTo(Issues, MaxIssues)

\* a configuration file with every required value
GoodConfig(prefix, proj) ==
    [ BaseURL |-> << "h" >>, APIVersion |-> << "2" >>, EndpointPrefix |-> prefix,
      Username |-> << "u" >>, Password |-> << "p" >>, DefaultProject |-> proj ]

\* configuration files: complete ones, and ones lacking one required value
ConfigFiles ==
    { GoodConfig(prefix, proj) : prefix \in { << >>, << "/rest" >> }, proj \in { << >>, << "P" >> } }
    \cup { [ GoodConfig(<< >>, << >>) EXCEPT !.BaseURL = << >> ],
           [ GoodConfig(<< >>, << >>) EXCEPT !.Username = << >> ],
           [ GoodConfig(<< >>, << >>) EXCEPT !.Password = << >> ] }

\* os.LookupEnv: (value, set)
EnvUnset == [ set |-> FALSE, val |-> << >> ]
EnvSet(v) == [ set |-> TRUE, val |-> v ]

\* what func init finds: $HOME, the configuration file, JIWA_USERNAME, JIWA_PASSWORD
Environments ==
    { [ home |-> FALSE, file |-> "ok", config |-> ZeroConfig, envUser |-> EnvUnset, envPass |-> EnvUnset ],
      [ home |-> TRUE, file |-> "missing", config |-> ZeroConfig, envUser |-> EnvUnset, envPass |-> EnvUnset ],
      [ home |-> TRUE, file |-> "badjson", config |-> ZeroConfig, envUser |-> EnvUnset, envPass |-> EnvUnset ] }
    \cup { [ home |-> TRUE, file |-> "ok", config |-> f, envUser |-> eu, envPass |-> ep ] :
             f \in ConfigFiles,
             eu \in { EnvUnset, EnvSet(<< "u" >>) },
             ep \in { EnvUnset, EnvSet(<< "p" >>) } }

-----------------------------------------------------------------------------
(* Printing, exiting, calling the client.                                  *)

\* one printed line: what it is, the issue key it is about, its text
Line(kind, key, text) == [ kind |-> kind, key |-> key, text |-> text ]

\* fmt.Println(...) of the lines, then os.Exit(code) (or the return of main, code 0)
Exit(code, lines) ==
    /\ out' = out \o lines
    /\ exitCode' = code
    /\ pc' = "exit"

\* one call of the jiwa.Client: the operation, its arguments, whether it succeeded
Call(op, args, ok) == [ op |-> op, args |-> args, ok |-> ok ]

-----------------------------------------------------------------------------
(* flag.FlagSet.Parse, for flag sets of string flags.                      *)

\* index of the first "=" of name from position 2 on, 0 when there is none
FirstEq(name) ==
    IF \E i \in 2..Len(name) : name[i] = "="
    THEN CHOOSE i \in 2..Len(name) :
            /\ name[i] = "="
            /\ \A j \in 2..(i - 1) : name[j] # "="
    ELSE 0

\* Parse(arguments): flags are read until the first non-flag argument or "--";
\* an undefined flag, a malformed one or one without its value is an error
RECURSIVE FlagParse(_, _)
FlagParse(vals, arguments) ==
    IF arguments = << >> THEN [ err |-> FALSE, vals |-> vals ]
    ELSE LET s == Head(arguments) IN
         IF Len(s) < 2 \/ s[1] # "-" THEN [ err |-> FALSE, vals |-> vals ]
         ELSE IF s = << "-", "-" >> THEN [ err |-> FALSE, vals |-> vals ]
         ELSE LET full  == IF s[2] = "-" THEN SubSeq(s, 3, Len(s)) ELSE Tail(s)
                  eq    == FirstEq(full)
                  name  == IF eq > 0 THEN SubSeq(full, 1, eq - 1) ELSE full
                  rest  == Tail(arguments)
              IN  IF full = << >> \/ full[1] = "-" \/ full[1] = "="
                  THEN [ err |-> TRUE, vals |-> vals ]
                  ELSE IF ~(Len(name) = 1 /\ name[1] \in DOMAIN vals)
                  THEN [ err |-> TRUE, vals |-> vals ]
                  ELSE IF eq > 0
                  THEN FlagParse([ vals EXCEPT ![name[1]] = SubSeq(full, eq + 1, Len(full)) ], rest)
                  ELSE IF rest = << >>
                  THEN [ err |-> TRUE, vals |-> vals ]
                  ELSE FlagParse([ vals EXCEPT ![name[1]] = Head(rest) ], Tail(rest))

-----------------------------------------------------------------------------
(* func readStdin.                                                         *)

\* buf after the loop: every line the scanner yields, each followed by byte 10
RECURSIVE AppendLines(_)
AppendLines(lines) ==
    IF lines = << >> THEN << >>
    ELSE Head(lines) \o << NL >> \o AppendLines(Tail(lines))

\* func readStdin() ([]byte, error): (nil, err) when scanner.Err() is not nil
readStdin(stdin) ==
    IF stdin.err
    THEN [ buf |-> << >>, err |-> "failed to read stdin" ]
    ELSE [ buf |-> AppendLines(stdin.lines), err |-> NoErr ]

-----------------------------------------------------------------------------
(* Spec: one invocation.                                                   *)

urlVars    == << issueKey, baseURL, url, stripped >>
editorVars == << tmpFile, cleanupRuns, caller, prefill >>
localVars  == << project, summary, description, ticketID, user, jql >>
parseVars  == << scanner, res >>
envVars    == << Args, stdinPiped, cfg, clientBaseURL, flags >>

\* the state before func init runs
Init ==
    /\ Args \in ArgvSet
    /\ stdinPiped \in BOOLEAN
    /\ cfg = ZeroConfig
    /\ clientBaseURL = << >>
    /\ flags = DefaultFlags
    /\ pc = "init"
    /\ exitCode = NotExited
    /\ out = << >>
    /\ calls = << >>
    /\ project = << >> /\ summary = << >> /\ description = << >>
    /\ ticketID = << >> /\ user = << >> /\ jql = << >>
    /\ scanner = NewScanner(<< >>, FALSE)
    /\ res = NoResult
    /\ tmpFile = "none" /\ cleanupRuns = 0 /\ caller = "none" /\ prefill = << >>
    /\ issueKey = << >> /\ baseURL = << >> /\ url = << >> /\ stripped = << >>

\* func init(): locate $HOME, read and unmarshal the configuration file, apply
\* JIWA_USERNAME and JIWA_PASSWORD, require baseURL, username and password,
\* require a subcommand
InitFn ==
    /\ pc = "init"
    /\ \E env \in Environments :
        LET withUser == IF env.envUser.set
                        THEN [ env.config EXCEPT !.Username = env.envUser.val ]
                        ELSE env.config
            loaded   == IF env.envPass.set
                        THEN [ withUser EXCEPT !.Password = env.envPass.val ]
                        ELSE withUser
        IN  IF ~env.home
            THEN /\ Exit(1, << Line("error", << >>, << "cannot locate user home dir" >>) >>)
                 /\ UNCHANGED cfg
            ELSE IF env.file = "missing"
            THEN /\ Exit(1, << Line("error", << >>, << "cannot locate configuration file" >>) >>)
                 /\ UNCHANGED cfg
            ELSE IF env.file = "badjson"
            THEN /\ Exit(1, << Line("error", << >>, << "failed to read configuration file" >>) >>)
                 /\ UNCHANGED cfg
            ELSE /\ cfg' = loaded
                 /\ IF loaded.Password = << >> \/ loaded.Username = << >> \/ loaded.BaseURL = << >>
                    THEN Exit(1, << Line("error", << >>, << "Config is missing important values" >>) >>)
                    ELSE IF NArgs < 2
                    THEN Exit(1, << Line("usage", << >>, << "Usage: jiwa {create|edit|list|move|reassign}" >>) >>)
                    ELSE /\ pc' = "main"
                         /\ UNCHANGED << exitCode, out >>
    /\ UNCHANGED << Args, stdinPiped, clientBaseURL, flags, calls >>
    /\ UNCHANGED << localVars, parseVars, editorVars, urlVars >>

\* func main, up to the switch: the client is built with
\* BaseURL: cfg.BaseURL + cfg.EndpointPrefix, and stdin is stat'ed
MainStart ==
    /\ pc = "main"
    /\ clientBaseURL' = cfg.BaseURL \o cfg.EndpointPrefix
    /\ pc' = "switch"
    /\ UNCHANGED << Args, stdinPiped, cfg, flags, exitCode, out, calls >>
    /\ UNCHANGED << localVars, parseVars, editorVars, urlVars >>

-----------------------------------------------------------------------------
(* case "create"                                                           *)

UsageCreate == Line("usage", << >>, << "Usage: jiwa create [-project]" >>)

\* create.Parse(os.Args[2:]) and the choice of the project
CaseCreate ==
    /\ pc = "switch"
    /\ Arg(1) = CmdCreate
    /\ LET parsed == FlagParse(flags.create, ArgsFrom(2)) IN
        /\ flags' = [ flags EXCEPT !.create = parsed.vals ]
        /\ IF parsed.err
           THEN /\ Exit(1, << UsageCreate >>)
                /\ UNCHANGED project
           ELSE IF parsed.vals.project = << >> /\ cfg.DefaultProject = << >>
           THEN /\ Exit(1, << UsageCreate >>)
                /\ UNCHANGED project
           ELSE /\ project' = IF parsed.vals.project = << >>
                              THEN cfg.DefaultProject
                              ELSE parsed.vals.project
                /\ pc' = "create_in"
                /\ UNCHANGED << exitCode, out >>
    /\ UNCHANGED << Args, stdinPiped, cfg, clientBaseURL, calls >>
    /\ UNCHANGED << summary, description, ticketID, user, jql >>
    /\ UNCHANGED << parseVars, editorVars, urlVars >>

\* switch *createIn, case "": CreateIssueSummaryDescription("") is called
CreateFromEditor ==
    /\ pc = "create_in"
    /\ flags.create.in = << >>
    /\ prefill' = << >>
    /\ caller' = "create"
    /\ pc' = "cisd_setup"
    /\ UNCHANGED << envVars, exitCode, out, calls, localVars, parseVars, tmpFile, cleanupRuns, urlVars >>

\* the parser applied in main to a buffer (cases "-" and default of *createIn)
ParseBuffer(sc) ==
    LET r == BuildSummaryAndDescriptionFromScanner(sc) IN
    /\ scanner' = sc
    /\ res' = r
    /\ IF r.err # NoErr
       THEN /\ Exit(1, << Line("error", << >>, << "failed to get summary and description" >>) >>)
            /\ UNCHANGED << summary, description >>
       ELSE /\ summary' = r.title
            /\ description' = r.description
            /\ pc' = "create_call"
            /\ UNCHANGED << exitCode, out >>

\* switch *createIn, case "-": readStdin, echo, parse
CreateFromStdin ==
    /\ pc = "create_in"
    /\ flags.create.in = << "-" >>
    /\ \E text \in StdinTexts, failed \in BOOLEAN :
        LET in == readStdin(NewScanner(ScanLines(text), failed)) IN
        IF in.err # NoErr
        THEN /\ Exit(1, << Line("error", << >>, << in.err >>) >>)
             /\ UNCHANGED << summary, description, parseVars >>
        ELSE LET r == BuildSummaryAndDescriptionFromScanner(NewScanner(ScanLines(in.buf), FALSE)) IN
             /\ scanner' = NewScanner(ScanLines(in.buf), FALSE)
             /\ res' = r
             /\ IF r.err # NoErr
                THEN /\ Exit(1, << Line("echo", << >>, in.buf),
                                   Line("error", << >>, << "failed to get summary and description" >>) >>)
                     /\ UNCHANGED << summary, description >>
                ELSE /\ out' = Append(out, Line("echo", << >>, in.buf))
                     /\ summary' = r.title
                     /\ description' = r.description
                     /\ pc' = "create_call"
                     /\ UNCHANGED exitCode
    /\ UNCHANGED << envVars, calls, project, ticketID, user, jql, editorVars, urlVars >>

\* switch *createIn, default: os.ReadFile(*createIn), parse
CreateFromFile ==
    /\ pc = "create_in"
    /\ flags.create.in \notin { << >>, << "-" >> }
    /\ \E readable \in BOOLEAN, text \in Texts, tooLong \in BOOLEAN :
        IF ~readable
        THEN /\ Exit(1, << Line("error", << >>, << "failed to read file contents" >>) >>)
             /\ UNCHANGED << summary, description, parseVars >>
        ELSE ParseBuffer(NewScanner(ScanLines(text), tooLong))
    /\ UNCHANGED << envVars, calls, project, ticketID, user, jql, editorVars, urlVars >>

\* c.CreateIssue(...), then the URL of the new issue is printed
CreateCall ==
    /\ pc = "create_call"
    /\ \E ok \in BOOLEAN, key \in IssueKeys :
        /\ calls' = Append(calls,
                Call("CreateIssue",
                     [ project |-> project, summary |-> summary, description |-> description,
                       labels |-> << >>, type |-> << "Task" >> ], ok))
        /\ IF ok
           THEN Exit(0, << Line("url", key, ConstructIssueURL(key, cfg.BaseURL)) >>)
           ELSE Exit(1, << Line("error", << >>, << "failed to create issue" >>) >>)
    /\ UNCHANGED << envVars, localVars, parseVars, editorVars, urlVars >>

-----------------------------------------------------------------------------
(* func CreateIssueSummaryDescription(prefill)                             *)

\* editor.SetupTmpFileWithEditor(prefill): it fails, or it has staged the
\* temporary file, run the editor and returns a scanner on what the user left
\* in the file (any text, whatever the prefill was) and the cleanup function
SetupTmpFileWithEditor(pre) ==
    { [ ok |-> FALSE, scanner |-> NewScanner(<< >>, FALSE) ] }
    \cup { [ ok |-> TRUE, scanner |-> NewScanner(ScanLines(text), failed) ] :
             text \in Texts, failed \in BOOLEAN }

\* the cleanup function SetupTmpFileWithEditor returns: the temporary file is removed
Cleanup(file) == "removed"

\* where CreateIssueSummaryDescription returns to
ReturnSite == IF caller = "create" THEN "create_ret" ELSE "edit_ret"

\* scanner, cleanup, err := editor.SetupTmpFileWithEditor(prefill);
\* on err the function returns at once, otherwise cleanup is deferred
CISD_Setup ==
    /\ pc = "cisd_setup"
    /\ \E o \in SetupTmpFileWithEditor(prefill) :
        IF ~o.ok
        THEN /\ res' = Result(<< >>, << >>, "failed to set up scanner on tmpFile")
             /\ pc' = ReturnSite
             /\ UNCHANGED << scanner, tmpFile >>
        ELSE /\ scanner' = o.scanner
             /\ tmpFile' = "staged"
             /\ pc' = "cisd_build"
             /\ UNCHANGED res
    /\ UNCHANGED << envVars, exitCode, out, calls, localVars, cleanupRuns, caller, prefill, urlVars >>

\* title, description, err := BuildSummaryAndDescriptionFromScanner(scanner),
\* the two checks, and the values of the return statement reached
CISD_Build ==
    /\ pc = "cisd_build"
    /\ LET r == BuildSummaryAndDescriptionFromScanner(scanner) IN
        res' = IF r.err # NoErr THEN Result(<< >>, << >>, "scanner failure")
               ELSE IF r.title = << >>
               THEN Result(<< >>, << >>, "the summary line needs to be filled at least")
               ELSE Result(r.title, r.description, NoErr)
    /\ pc' = "cisd_defer"
    /\ UNCHANGED << envVars, exitCode, out, calls, localVars, scanner, editorVars, urlVars >>

\* the return with the mistake of cleaning up on the success path only
CISD_ReturnLeak ==
    /\ pc = "cisd_defer"
    /\ IF res.err = NoErr
       THEN /\ tmpFile' = Cleanup(tmpFile)
            /\ cleanupRuns' = cleanupRuns + 1
       ELSE UNCHANGED << tmpFile, cleanupRuns >>
    /\ pc' = ReturnSite
    /\ UNCHANGED << envVars, exitCode, out, calls, localVars, parseVars, caller, prefill, urlVars >>

\* defer cleanup(): the deferred call runs when the function returns, whichever
\* return statement was reached
CISD_Return ==
    /\ pc = "cisd_defer"
    /\ tmpFile' = Cleanup(tmpFile)
    /\ cleanupRuns' = cleanupRuns + 1
    /\ pc' = ReturnSite
    /\ UNCHANGED << envVars, exitCode, out, calls, localVars, parseVars, caller, prefill, urlVars >>

\* case "create", after CreateIssueSummaryDescription("") returned
CreateReturn ==
    /\ pc = "create_ret"
    /\ IF res.err # NoErr
       THEN /\ Exit(1, << Line("error", << >>, << "failed to get summary and description" >>) >>)
            /\ UNCHANGED << summary, description >>
       ELSE /\ summary' = res.title
            /\ description' = res.description
            /\ pc' = "create_call"
            /\ UNCHANGED << exitCode, out >>
    /\ UNCHANGED << envVars, calls, project, ticketID, user, jql, parseVars, editorVars, urlVars >>

-----------------------------------------------------------------------------
(* case "edit"                                                             *)

\* if len(os.Args) != 3 { usage; os.Exit(1) }
CaseEdit ==
    /\ pc = "switch"
    /\ Arg(1) = CmdEdit
    /\ IF NArgs # 3
       THEN Exit(1, << Line("usage", << >>, << "Usage: jiwa edit <issue ID>" >>) >>)
       ELSE /\ pc' = "edit_get"
            /\ UNCHANGED << exitCode, out >>
    /\ UNCHANGED << envVars, calls, localVars, parseVars, editorVars, urlVars >>

\* GetIssueIntoEditor with the mistake of ignoring the error of GetIssue
GetIssueIntoEditorIgnoreErr ==
    /\ pc = "edit_get"
    /\ \E ok \in BOOLEAN, issue \in Issues :
        /\ calls' = Append(calls, Call("GetIssue", [ key |-> Arg(2) ], ok))
        /\ prefill' = IF ok THEN issue.Summary \o << NL >> \o issue.Description ELSE << NL >>
        /\ caller' = "edit"
        /\ pc' = "cisd_setup"
        /\ UNCHANGED res
    /\ UNCHANGED << envVars, exitCode, out, localVars, scanner, tmpFile, cleanupRuns, urlVars >>

\* func GetIssueIntoEditor(c, key): c.GetIssue; on err return it; otherwise
\* CreateIssueSummaryDescription(summary + "\n" + description) is called
GetIssueIntoEditor ==
    /\ pc = "edit_get"
    /\ \E ok \in BOOLEAN, issue \in Issues :
        /\ calls' = Append(calls, Call("GetIssue", [ key |-> Arg(2) ], ok))
        /\ IF ~ok
           THEN /\ res' = Result(<< >>, << >>, "GetIssue failed")
                /\ pc' = "edit_ret"
                /\ UNCHANGED << caller, prefill >>
           ELSE /\ prefill' = issue.Summary \o << NL >> \o issue.Description
                /\ caller' = "edit"
                /\ pc' = "cisd_setup"
                /\ UNCHANGED res
    /\ UNCHANGED << envVars, exitCode, out, localVars, scanner, tmpFile, cleanupRuns, urlVars >>

\* case "edit", after GetIssueIntoEditor returned
EditReturn ==
    /\ pc = "edit_ret"
    /\ IF res.err # NoErr
       THEN /\ Exit(1, << Line("error", << >>, << "failed to get summary and description" >>) >>)
            /\ UNCHANGED << summary, description >>
       ELSE /\ summary' = res.title
            /\ description' = res.description
            /\ out' = Append(out, Line("summary", Arg(2), res.title \o << " | " >> \o res.description))
            /\ pc' = "edit_update"
            /\ UNCHANGED exitCode
    /\ UNCHANGED << envVars, calls, project, ticketID, user, jql, parseVars, editorVars, urlVars >>

\* c.UpdateIssue(...), then the URL of the issue is printed
EditUpdate ==
    /\ pc = "edit_update"
    /\ \E ok \in BOOLEAN :
        /\ calls' = Append(calls,
                Call("UpdateIssue",
                     [ key |-> Arg(2), summary |-> summary, description |-> description ], ok))
        /\ IF ok
           THEN Exit(0, << Line("url", Arg(2), ConstructIssueURL(Arg(2), cfg.BaseURL)) >>)
           ELSE Exit(1, << Line("error", << >>, << "failed to update issue" >>) >>)
    /\ UNCHANGED << envVars, localVars, parseVars, editorVars, urlVars >>

-----------------------------------------------------------------------------
(* cases "list", "ls", "move", "mv" and the words that match no case       *)

\* a case without statements: Go does not fall through, the switch is left
\* and main returns
EmptyCase(label) ==
    /\ pc = "switch"
    /\ Arg(1) = label
    /\ Exit(0, << >>)
    /\ UNCHANGED << envVars, calls, localVars, parseVars, editorVars, urlVars >>

\* case "list":
CaseList == EmptyCase(CmdList)
\* case "move":
CaseMove == EmptyCase(CmdMove)
\* case "mv":
CaseMv == EmptyCase(CmdMv)

\* the switch has no default: a word that matches no case does nothing
NoCase ==
    /\ pc = "switch"
    /\ Arg(1) \notin CaseLabels
    /\ Exit(0, << >>)
    /\ UNCHANGED << envVars, calls, localVars, parseVars, editorVars, urlVars >>

\* the assignee clause of the query, from *listUser
UserClause(listUser) ==
    IF listUser = << "empty" >> THEN << "AND assignee is EMPTY" >>
    ELSE IF listUser = << >> THEN << >>
    ELSE << "AND assignee= " >> \o listUser

\* fmt.Sprintf("project=%s AND status=\"%s\" %s", project, *listStatus, user)
BuildJQL(proj, status, clause) ==
    << "project=" >> \o proj \o << " AND status=\"" >> \o status \o << "\" " >> \o clause

\* case "ls": list.Parse(os.Args[2:]) and the query
CaseLs ==
    /\ pc = "switch"
    /\ Arg(1) = CmdLs
    /\ LET parsed == FlagParse(flags.list, ArgsFrom(2)) IN
        /\ flags' = [ flags EXCEPT !.list = parsed.vals ]
        /\ IF parsed.err
           THEN /\ Exit(1, << Line("usage", << >>, << "Usage: jiwa ls [-user|-status]" >>) >>)
                /\ UNCHANGED jql
           ELSE /\ jql' = BuildJQL(IF parsed.vals.project # << >>
                                   THEN parsed.vals.project ELSE cfg.DefaultProject,
                                   parsed.vals.status, UserClause(parsed.vals.user))
                /\ pc' = "ls_search"
                /\ UNCHANGED << exitCode, out >>
    /\ UNCHANGED << Args, stdinPiped, cfg, clientBaseURL, calls >>
    /\ UNCHANGED << project, summary, description, ticketID, user >>
    /\ UNCHANGED << parseVars, editorVars, urlVars >>

\* the rows of the table: issueURL := fmt.Sprintf("%s/browse/%s", c.BaseURL, i.Key)
RECURSIVE Rows(_)
Rows(issues) ==
    IF issues = << >> THEN << >>
    ELSE << Line("row", Head(issues).Key, clientBaseURL \o BrowsePath \o Head(issues).Key) >>
         \o Rows(Tail(issues))

\* c.Search(jql), then the table is printed
LsSearch ==
    /\ pc = "ls_search"
    /\ \E ok \in BOOLEAN, issues \in IssueLists :
        /\ calls' = Append(calls, Call("Search", [ jql |-> jql ], ok))
        /\ IF ok
           THEN Exit(0, << Line("header", << >>, << "ID\tSummary\tURL" >>) >> \o Rows(issues))
           ELSE Exit(1, << Line("error", << >>, << "could not list issues" >>) >>)
    /\ UNCHANGED << envVars, localVars, parseVars, editorVars, urlVars >>

-----------------------------------------------------------------------------
(* cases "reassign" and "label"                                            *)

\* case "reassign": the argument count, by whether stdin is piped
CaseReassign ==
    /\ pc = "switch"
    /\ Arg(1) = CmdReassign
    /\ IF stdinPiped
       THEN IF NArgs # 3
            THEN /\ Exit(1, << Line("usage", << >>, << "Usage: jiwa reassign <username>" >>) >>)
                 /\ UNCHANGED << ticketID, user >>
            ELSE /\ pc' = "reassign_stdin"
                 /\ UNCHANGED << exitCode, out, ticketID, user >>
       ELSE IF NArgs # 4
            THEN /\ Exit(1, << Line("usage", << >>, << "Usage: jiwa reassign <issue ID> <username>" >>) >>)
                 /\ UNCHANGED << ticketID, user >>
            ELSE /\ ticketID' = Arg(2)
                 /\ user' = Arg(3)
                 /\ pc' = "reassign_call"
                 /\ UNCHANGED << exitCode, out >>
    /\ UNCHANGED << envVars, calls, project, summary, description, jql >>
    /\ UNCHANGED << parseVars, editorVars, urlVars >>

\* in, err := readStdin(); ticketID = StripBaseURL(string(in), cfg.BaseURL); user = os.Args[2]
ReassignStdin ==
    /\ pc = "reassign_stdin"
    /\ \E text \in StdinTexts, failed \in BOOLEAN :
        LET in == readStdin(NewScanner(ScanLines(text), failed)) IN
        IF in.err # NoErr
        THEN /\ Exit(1, << Line("error", << >>, << in.err >>) >>)
             /\ UNCHANGED << ticketID, user >>
        ELSE /\ ticketID' = StripBaseURL(in.buf, cfg.BaseURL)
             /\ user' = Arg(2)
             /\ pc' = "reassign_call"
             /\ UNCHANGED << exitCode, out >>
    /\ UNCHANGED << envVars, calls, project, summary, description, jql >>
    /\ UNCHANGED << parseVars, editorVars, urlVars >>

\* c.AssignIssue(ticketID, user), then the URL of the issue is printed
ReassignCall ==
    /\ pc = "reassign_call"
    /\ \E ok \in BOOLEAN :
        /\ calls' = Append(calls, Call("AssignIssue", [ key |-> ticketID, user |-> user ], ok))
        /\ IF ok
           THEN Exit(0, << Line("url", ticketID, ConstructIssueURL(ticketID, cfg.BaseURL)) >>)
           ELSE Exit(1, << Line("error", << >>, << "failed to assign issue" >>) >>)
    /\ UNCHANGED << envVars, localVars, parseVars, editorVars, urlVars >>

\* case "label": the argument count, by whether stdin is piped; with stdin
\* piped the usage line is printed and the case goes on
CaseLabel ==
    /\ pc = "switch"
    /\ Arg(1) = CmdLabel
    /\ IF stdinPiped
       THEN /\ out' = IF NArgs < 3
                      THEN Append(out, Line("usage", << >>, << "Usage: jiwa label <label> <label> ..." >>))
                      ELSE out
            /\ pc' = "label_stdin"
            /\ UNCHANGED << exitCode, ticketID >>
       ELSE IF NArgs < 4
            THEN /\ Exit(1, << Line("usage", << >>, << "Usage: jiwa label <issue ID> <label> <label>..." >>) >>)
                 /\ UNCHANGED ticketID
            ELSE /\ ticketID' = Arg(2)
                 /\ pc' = "label_call"
                 /\ UNCHANGED << exitCode, out >>
    /\ UNCHANGED << envVars, calls, project, summary, description, user, jql >>
    /\ UNCHANGED << parseVars, editorVars, urlVars >>

\* in, err := readStdin(); ticketID = StripBaseURL(string(in), cfg.BaseURL)
LabelStdin ==
    /\ pc = "label_stdin"
    /\ \E text \in StdinTexts, failed \in BOOLEAN :
        LET in == readStdin(NewScanner(ScanLines(text), failed)) IN
        IF in.err # NoErr
        THEN /\ Exit(1, << Line("error", << >>, << in.err >>) >>)
             /\ UNCHANGED ticketID
        ELSE /\ ticketID' = StripBaseURL(in.buf, cfg.BaseURL)
             /\ pc' = "label_call"
             /\ UNCHANGED << exitCode, out >>
    /\ UNCHANGED << envVars, calls, project, summary, description, user, jql >>
    /\ UNCHANGED << parseVars, editorVars, urlVars >>

\* c.LabelIssue(ticketID, os.Args[2:]...), then the key and the URL are printed
LabelCall ==
    /\ pc = "label_call"
    /\ \E ok \in BOOLEAN :
        /\ calls' = Append(calls, Call("LabelIssue", [ key |-> ticketID, labels |-> ArgsFrom(2) ], ok))
        /\ IF ok
           THEN Exit(0, << Line("id", ticketID, ticketID),
                           Line("url", ticketID, ConstructIssueURL(ticketID, cfg.BaseURL)) >>)
           ELSE Exit(1, << Line("error", << >>, << "failed to label issue" >>) >>)
    /\ UNCHANGED << envVars, localVars, parseVars, editorVars, urlVars >>

Next ==
    \/ InitFn
    \/ MainStart
    \/ CaseCreate
    \/ CreateFromEditor
    \/ CreateFromStdin
    \/ CreateFromFile
    \/ CreateReturn
    \/ CreateCall
    \/ CISD_Setup
    \/ CISD_Build
    \/ CISD_Return
    \/ CaseEdit
    \/ GetIssueIntoEditor
    \/ EditReturn
    \/ EditUpdate
    \/ CaseList
    \/ CaseLs
    \/ LsSearch
    \/ CaseMove
    \/ CaseMv
    \/ NoCase
    \/ CaseReassign
    \/ ReassignStdin
    \/ ReassignCall
    \/ CaseLabel
    \/ LabelStdin
    \/ LabelCall

Spec == Init /\ [][Next]_vars

-----------------------------------------------------------------------------
(* SpecParse: the parser on every bounded sequence of lines.               *)

\* the variables of an invocation, unused outside Spec
NoInvocation ==
    /\ Args = << Prog >>
    /\ stdinPiped = FALSE
    /\ cfg = ZeroConfig
    /\ clientBaseURL = << >>
    /\ flags = DefaultFlags
    /\ exitCode = NotExited
    /\ out = << >>
    /\ calls = << >>
    /\ project = << >> /\ summary = << >> /\ description = << >>
    /\ ticketID = << >> /\ user = << >> /\ jql = << >>
    /\ tmpFile = "none" /\ cleanupRuns = 0 /\ caller = "none" /\ prefill = << >>

LineSymbols == { "a", "b" }
Lines == SeqsUpTo(LineSymbols, MaxLineLen)

\* the scanner yields any bounded sequence of lines, and ends with or without error
InitParse ==
    /\ NoInvocation
    /\ pc = "parse"
    /\ scanner \in { NewScanner(ls, failed) : ls \in SeqsUpTo(Lines, MaxLines), failed \in BOOLEAN }
    /\ res = NoResult
    /\ issueKey = << >> /\ baseURL = << >> /\ url = << >> /\ stripped = << >>

\* title, description, err := BuildSummaryAndDescriptionFromScanner(scanner)
Parse ==
    /\ pc = "parse"
    /\ res' = BuildSummaryAndDescriptionFromScanner(scanner)
    /\ pc' = "parsed"
    /\ UNCHANGED << envVars, exitCode, out, calls, localVars, scanner, editorVars, urlVars >>

NextParse == Parse

SpecParse == InitParse /\ [][NextParse]_vars

-----------------------------------------------------------------------------
(* SpecURL: the URL helpers on every bounded key and base URL.             *)

URLSymbols == { "a", "b" }

InitURL ==
    /\ NoInvocation
    /\ pc = "construct"
    /\ scanner = NewScanner(<< >>, FALSE)
    /\ res = NoResult
    /\ issueKey \in SeqsUpTo(URLSymbols, MaxKeyLen)
    /\ baseURL \in SeqsUpTo(URLSymbols, MaxBaseLen)
    /\ url = << >>
    /\ stripped = << >>

\* url := ConstructIssueURL(issueKey, baseURL)
Construct ==
    /\ pc = "construct"
    /\ url' = ConstructIssueURL(issueKey, baseURL)
    /\ pc' = "strip"
    /\ UNCHANGED << envVars, exitCode, out, calls, localVars, parseVars, editorVars,
                    issueKey, baseURL, stripped >>

\* stripped := StripBaseURL(url, baseURL)
Strip ==
    /\ pc = "strip"
    /\ stripped' = StripBaseURL(url, baseURL)
    /\ pc' = "stripped"
    /\ UNCHANGED << envVars, exitCode, out, calls, localVars, parseVars, editorVars,
                    issueKey, baseURL, url >>

NextURL == Construct \/ Strip

SpecURL == InitURL /\ [][NextURL]_vars

-----------------------------------------------------------------------------
(* The claims.                                                             *)

\* the positions of the non-empty lines of ls
NonEmpty(ls) == { i \in 1..Len(ls) : ls[i] # << >> }

\* the position of the first non-empty line of ls, Len(ls) + 1 when there is none
FirstNonEmpty(ls) ==
    IF NonEmpty(ls) = {} THEN Len(ls) + 1
    ELSE CHOOSE i \in NonEmpty(ls) : \A j \in NonEmpty(ls) : i <= j

\* the lines of ls after its first non-empty line
Following(ls) == SubSeq(ls, FirstNonEmpty(ls) + 1, Len(ls))

\* how many newlines text holds
Newlines(text) == Cardinality({ i \in 1..Len(text) : text[i] = NL })

\* ls joined with newlines: one between consecutive lines, none after the last
RECURSIVE JoinNL(_)
JoinNL(ls) ==
    IF ls = << >> THEN << >>
    ELSE IF Len(ls) = 1 THEN ls[1]
    ELSE ls[1] \o << NL >> \o JoinNL(Tail(ls))

\* C1: for every sequence of lines the summary returned is the first non-empty
\* line; the lines before it are empty and appear neither in the summary nor in
\* the description (which holds one newline for each line after the summary
\* line); the summary is empty only when no line is non-empty.
C1_SummaryIsFirstNonEmptyLine ==
    pc = "parsed" =>
        LET ls == scanner.lines
            k  == FirstNonEmpty(ls)
        IN  /\ (NonEmpty(ls) = {}) <=> (res.title = << >>)
            /\ NonEmpty(ls) = {} => res.description = << >>
            /\ NonEmpty(ls) # {} =>
                /\ res.title = ls[k]
                /\ \A j \in 1..(k - 1) : ls[j] = << >>
                /\ Newlines(res.description) = Len(ls) - k

\* C1 witness: two empty lines come first and the third line is the summary
C1_Witness ==
    /\ pc = "parsed"
    /\ Len(scanner.lines) = 4
    /\ scanner.lines[1] = << >> /\ scanner.lines[2] = << >>
    /\ scanner.lines[3] = << "b" >> /\ scanner.lines[4] = << "a" >>
    /\ res.title = << "b" >>

\* C2, as claimed: the description is the lines after the summary line joined
\* with newlines, none after the last line.
C2_DescriptionIsJoinOfRest ==
    pc = "parsed" => res.description = JoinNL(Following(scanner.lines))

\* C2, amended: the description is the lines after the summary line, in their
\* order and with the empty ones, each followed by a newline: their join with
\* newlines followed by one more newline, and empty when no line follows.
C2_DescriptionIsTerminatedLines ==
    pc = "parsed" =>
        LET rest == Following(scanner.lines)
        IN  res.description = IF rest = << >> THEN << >> ELSE JoinNL(rest) \o << NL >>

\* C2 witness: an empty line and a non-empty line follow the summary line
C2_Witness ==
    /\ pc = "parsed"
    /\ scanner.lines = << << "a" >>, << >>, << "b" >> >>
    /\ res.description = << NL, "b", NL >>

\* C3: whenever the buffer of create (editor, stdin, file) or edit holds no
\* non-empty line the invocation fails: the point of the call is never reached
\* with an empty summary and CreateIssue / UpdateIssue is never called with one.
C3_EmptySummaryIsRejected ==
    /\ pc \in { "create_call", "edit_update" } => summary # << >>
    /\ \A i \in DOMAIN calls :
        calls[i].op \in { "CreateIssue", "UpdateIssue" } => calls[i].args.summary # << >>

\* C4: StripBaseURL(ConstructIssueURL(key, base), base) = key.
C4_StripRecoversKey ==
    pc = "stripped" => stripped = issueKey

\* whether the arguments of the subcommand fail its validation
InvalidArguments ==
    IF Arg(1) = CmdCreate
    THEN LET parsed == FlagParse(DefaultFlags.create, ArgsFrom(2))
         IN  parsed.err \/ (parsed.vals.project = << >> /\ cfg.DefaultProject = << >>)
    ELSE IF Arg(1) = CmdEdit THEN NArgs # 3
    ELSE IF Arg(1) = CmdLs THEN FlagParse(DefaultFlags.list, ArgsFrom(2)).err
    ELSE IF Arg(1) = CmdReassign THEN (IF stdinPiped THEN NArgs # 3 ELSE NArgs # 4)
    ELSE IF Arg(1) = CmdLabel THEN (IF stdinPiped THEN NArgs < 3 ELSE NArgs < 4)
    ELSE FALSE

\* C5: when the arguments of a subcommand fail its validation, the validation
\* step ends the process with status 1 and no client operation is ever invoked.
C5_InvalidArgumentsExitBeforeAnyCall ==
    (pc \notin { "init", "main" } /\ NArgs >= 2 /\ InvalidArguments) =>
        /\ calls = << >>
        /\ pc # "switch" => (pc = "exit" /\ exitCode = 1)

\* the operations invoked, in order
Ops == [ i \in DOMAIN calls |-> calls[i].op ]

\* C6: an invocation of a documented subcommand that exits 0 has invoked the
\* operation of the subcommand: create CreateIssue, edit GetIssue then
\* UpdateIssue, list and ls Search, reassign AssignIssue, label LabelIssue.
C6_SubcommandInvokesItsOperation ==
    exitCode = 0 =>
        /\ Arg(1) = CmdCreate => Ops = << "CreateIssue" >>
        /\ Arg(1) = CmdEdit => Ops = << "GetIssue", "UpdateIssue" >>
        /\ Arg(1) \in { CmdList, CmdLs } => Ops = << "Search" >>
        /\ Arg(1) = CmdReassign => Ops = << "AssignIssue" >>
        /\ Arg(1) = CmdLabel => Ops = << "LabelIssue" >>

\* C7: every issue URL printed, the rows of ls included, is the configured
\* base URL, "/browse/" and the issue key, whatever the endpointPrefix.
C7_PrintedURLIsBaseBrowseKey ==
    \A i \in DOMAIN out :
        out[i].kind \in { "url", "row" } =>
            out[i].text = cfg.BaseURL \o << "/browse/" >> \o out[i].key

MutatingOps == { "CreateIssue", "UpdateIssue", "AssignIssue", "LabelIssue" }

\* C8: an invocation makes at most two calls and at most one mutating call; a
\* failed call stays the last call and the process exits with status 1; UpdateIssue
\* is called only as the second call, after a GetIssue that succeeded, with the
\* non-empty summary parsed from the editor buffer.
C8_AtMostOneOperationNoRetry ==
    /\ Len(calls) <= 2
    /\ Cardinality({ i \in DOMAIN calls : calls[i].op \in MutatingOps }) <= 1
    /\ \A i \in DOMAIN calls :
        ~calls[i].ok => (i = Len(calls) /\ exitCode # 0 /\ (pc = "exit" => exitCode = 1))
    /\ \A i \in DOMAIN calls :
        calls[i].op = "UpdateIssue" =>
            /\ i = 2
            /\ calls[1].op = "GetIssue" /\ calls[1].ok
            /\ NonEmpty(scanner.lines) # {}
            /\ calls[i].args.summary = scanner.lines[FirstNonEmpty(scanner.lines)]

\* C8 witness: edit has made its two calls, the second one failed
C8_Witness ==
    /\ Len(calls) = 2
    /\ calls[1].op = "GetIssue" /\ calls[1].ok
    /\ calls[2].op = "UpdateIssue" /\ ~calls[2].ok
    /\ exitCode = 1

\* C9: once SetupTmpFileWithEditor has staged the temporary file, cleanup runs
\* exactly once before CreateIssueSummaryDescription returns, on every return
\* path; no staged file remains after the return nor at process exit.
C9_TmpFileCleanedUpOnEveryPath ==
    /\ cleanupRuns <= 1
    /\ tmpFile = "none" => cleanupRuns = 0
    /\ tmpFile = "staged" => (pc \in { "cisd_build", "cisd_defer" } /\ cleanupRuns = 0)
    /\ (tmpFile # "none" /\ pc \notin { "cisd_build", "cisd_defer" }) =>
            (tmpFile = "removed" /\ cleanupRuns = 1)

\* C9 witness: the editor buffer had no summary line, the process exited with
\* status 1 and the temporary file is removed
C9_Witness ==
    /\ pc = "exit" /\ exitCode = 1
    /\ res.err = "the summary line needs to be filled at least"
    /\ tmpFile = "removed" /\ cleanupRuns = 1

\* C10: the labels given to LabelIssue are the label arguments, without the
\* issue ID: os.Args[3:] when the issue ID is on the command line (and the key
\* is os.Args[2]), os.Args[2:] when the issue ID is read from stdin.
C10_LabelsExcludeIssueID ==
    \A i \in DOMAIN calls :
        calls[i].op = "LabelIssue" =>
            IF stdinPiped
            THEN calls[i].args.labels = ArgsFrom(2)
            ELSE /\ calls[i].args.labels = ArgsFrom(3)
                 /\ calls[i].args.key = Arg(2)

====
